---- MODULE Spec2Model ----
(***************************************************************************)
(* HtmlLengthService (core/templates/services/html-length.service.ts).     *)
(*                                                                         *)
(* An HTML string is a sequence of markup tokens (start tag, end tag,      *)
(* character data); a piece of text is a sequence of one-character         *)
(* strings.  The injected DomSanitizer and the browser's DOMParser are     *)
(* collaborators: the sanitizer is one of two policies fixed at            *)
(* construction, the parser is the HTML tree builder restricted to the     *)
(* tags of the vocabulary below.                                           *)
(***************************************************************************)
EXTENDS Integers, Sequences, FiniteSets, TLC

VARIABLES
  textTagsWithWeight,     \* the service's text-tag table
  nonTextTagsWithWeight,  \* the service's non-text-tag table
  sanitizerPolicy,        \* which DomSanitizer was injected
  htmlString,             \* the argument of the (pending or last) call
  pc,                     \* "ready": call pending, "done": call returned
  result,                 \* the value returned by the last call
  threw,                  \* TRUE iff the last call raised a TypeError
  trace,                  \* collaborator calls made by the last call, in order
  firstCall               \* the first call's argument and return value, and
                          \* whether a call on another argument followed

vars == <<textTagsWithWeight, nonTextTagsWithWeight, sanitizerPolicy,
          htmlString, pc, result, threw, trace, firstCall>>

----------------------------------------------------------------------------
(* Bounds of the model.                                                    *)

MaxTextLen == 4      \* longest enumerated text of a single element
MaxSibTextLen == 2   \* longest enumerated text of a sibling element
MaxWords == 4        \* most words in an enumerated single-spaced text
MaxItems == 2        \* most <li> items in an enumerated list

----------------------------------------------------------------------------
(* Text.                                                                   *)

Chars == {"a", " ", "\t"}

WhiteSpace == {" ", "\t", "\n"}

SeqsUpTo(S, n) == UNION {[1..k -> S] : k \in 0..n}

RECURSIVE Flatten(_)
Flatten(ss) == IF ss = <<>> THEN <<>> ELSE Head(ss) \o Flatten(Tail(ss))

\* String.prototype.trim: strips white space (not only spaces) at both ends.
RECURSIVE TrimStart(_)
TrimStart(s) ==
  IF s # <<>> /\ Head(s) \in WhiteSpace THEN TrimStart(Tail(s)) ELSE s

RECURSIVE TrimEnd(_)
TrimEnd(s) ==
  IF s # <<>> /\ s[Len(s)] \in WhiteSpace
    THEN TrimEnd(SubSeq(s, 1, Len(s) - 1))
    ELSE s

Trim_spacesOnly(s) ==
  LET RECURSIVE L(_)
      L(t) == IF t # <<>> /\ Head(t) = " " THEN L(Tail(t)) ELSE t
      RECURSIVE R(_)
      R(t) == IF t # <<>> /\ t[Len(t)] = " "
                THEN R(SubSeq(t, 1, Len(t) - 1)) ELSE t
  IN R(L(s))

Trim(s) == TrimEnd(TrimStart(s))

\* String.prototype.split(' '): the pieces between successive single spaces;
\* the empty string splits into one empty piece.
RECURSIVE SplitFrom(_, _)
SplitFrom(s, cur) ==
  IF s = <<>> THEN <<cur>>
  ELSE IF Head(s) = " " THEN <<cur>> \o SplitFrom(Tail(s), <<>>)
  ELSE SplitFrom(Tail(s), Append(cur, Head(s)))

Split(s) == SplitFrom(s, <<>>)

----------------------------------------------------------------------------
(* Tags.                                                                   *)

ImageTag == "oppia-noninteractive-image"
MathTag == "oppia-noninteractive-math"

LowerTags == {"p", "ul", "ol", "li", "a", "div", "collapsible",
              ImageTag, MathTag}

UpperOf ==
  [t \in LowerTags |->
     CASE t = "p" -> "P" [] t = "ul" -> "UL" [] t = "ol" -> "OL"
       [] t = "li" -> "LI" [] t = "a" -> "A" [] t = "div" -> "DIV"
       [] t = "collapsible" -> "COLLAPSIBLE"
       [] t = ImageTag -> "OPPIA-NONINTERACTIVE-IMAGE"
       [] t = MathTag -> "OPPIA-NONINTERACTIVE-MATH"]

\* Element.tagName of an HTML element is the upper-cased name.
ToUpperCase(t) == IF t \in LowerTags THEN UpperOf[t] ELSE t

ToLowerCase(T) ==
  IF \E t \in LowerTags : UpperOf[t] = T
    THEN CHOOSE t \in LowerTags : UpperOf[t] = T
    ELSE T

----------------------------------------------------------------------------
(* Markup tokens and DOM nodes.                                            *)

Open(t) == [type |-> "open", tag |-> t, data |-> <<>>]
Close(t) == [type |-> "close", tag |-> t, data |-> <<>>]
Chr(s) == [type |-> "text", tag |-> "", data |-> s]

Txt(s) == IF s = <<>> THEN <<>> ELSE <<Chr(s)>>
El(t, inner) == <<Open(t)>> \o inner \o <<Close(t)>>

TextNode(s) == [tagName |-> "#text", data |-> s, childNodes |-> <<>>]
Element(T, kids) == [tagName |-> T, data |-> <<>>, childNodes |-> kids]

----------------------------------------------------------------------------
(* DOMParser.parseFromString(_, 'text/html'): the HTML tree builder over   *)
(* the vocabulary.  The stack of open elements starts with <body>.         *)

\* Elements of the "special" category among the vocabulary.
SpecialElements == {"P", "UL", "OL", "LI", "DIV"}

\* Start tags that first close an open <p>.
ClosesP == {"P", "UL", "OL", "LI", "DIV"}

PopTop(stack) ==
  LET n == Len(stack) IN
  SubSeq(stack, 1, n - 2)
    \o <<[stack[n - 1] EXCEPT !.childNodes = Append(@, stack[n])]>>

RECURSIVE PopThrough(_, _)
PopThrough(stack, T) ==
  IF Len(stack) <= 1 THEN stack
  ELSE IF stack[Len(stack)].tagName = T THEN PopTop(stack)
  ELSE PopThrough(PopTop(stack), T)

HasInScope(stack, T, barriers) ==
  \E i \in 2..Len(stack) :
     /\ stack[i].tagName = T
     /\ \A j \in (i + 1)..Len(stack) : stack[j].tagName \notin barriers

AppendChild(stack, node) ==
  [stack EXCEPT ![Len(stack)].childNodes = Append(@, node)]

StartTag(stack, t) ==
  LET T == ToUpperCase(t)
      s1 == IF T = "LI" /\ HasInScope(stack, "LI", {"UL", "OL"})
              THEN PopThrough(stack, "LI") ELSE stack
      s2 == IF T \in ClosesP /\ HasInScope(s1, "P", {})
              THEN PopThrough(s1, "P") ELSE s1
  IN Append(s2, Element(T, <<>>))

EndTag(stack, t) ==
  LET T == ToUpperCase(t) IN
  CASE T = "P" ->
         IF HasInScope(stack, "P", {}) THEN PopThrough(stack, "P")
         ELSE AppendChild(stack, Element("P", <<>>))
    [] T \in {"UL", "OL", "DIV"} ->
         IF HasInScope(stack, T, {}) THEN PopThrough(stack, T) ELSE stack
    [] T = "LI" ->
         IF HasInScope(stack, "LI", {"UL", "OL"})
           THEN PopThrough(stack, "LI") ELSE stack
    [] OTHER ->
         IF HasInScope(stack, T, SpecialElements)
           THEN PopThrough(stack, T) ELSE stack

RECURSIVE CloseAll(_)
CloseAll(stack) == IF Len(stack) <= 1 THEN stack[1] ELSE CloseAll(PopTop(stack))

RECURSIVE TreeConstruction(_, _, _)
TreeConstruction(tokens, i, stack) ==
  IF i > Len(tokens) THEN CloseAll(stack)
  ELSE LET tok == tokens[i] IN
       TreeConstruction(tokens, i + 1,
         CASE tok.type = "open" -> StartTag(stack, tok.tag)
           [] tok.type = "close" -> EndTag(stack, tok.tag)
           [] OTHER -> AppendChild(stack, TextNode(tok.data)))

\* The body of the parsed document.
ParseFromString(tokens) ==
  TreeConstruction(tokens, 1, <<Element("BODY", <<>>)>>)

\* Node.textContent: the concatenation of the descendant text, in order.
RECURSIVE TextContent(_)
TextContent(node) ==
  IF node.tagName = "#text" THEN node.data
  ELSE Flatten([i \in 1..Len(node.childNodes) |->
                  TextContent(node.childNodes[i])])

\* The descendant elements of a node in document (pre-) order.
RECURSIVE Descendants(_)
Descendants(node) ==
  Flatten([i \in 1..Len(node.childNodes) |->
     IF node.childNodes[i].tagName = "#text" THEN <<>>
     ELSE <<node.childNodes[i]>> \o Descendants(node.childNodes[i])])

TopLevelOnly(root, selectors) ==
  LET Matches(n) == n.tagName # "#text" /\ ToLowerCase(n.tagName) \in selectors
  IN SelectSeq(root.childNodes, Matches)

QuerySelectorAll(root, selectors) ==
  LET Matches(n) == ToLowerCase(n.tagName) \in selectors
  IN SelectSeq(Descendants(root), Matches)

----------------------------------------------------------------------------
(* DomSanitizer.sanitize(SecurityContext.HTML, _).                         *)

\* Elements the framework's sanitizer keeps; any other element is dropped
\* and its content kept in place.
ValidElements == {"P", "UL", "OL", "LI", "A", "DIV"}

RECURSIVE Serialize(_)
Serialize(node) ==
  IF node.tagName = "#text" THEN Txt(node.data)
  ELSE LET inner == Flatten([i \in 1..Len(node.childNodes) |->
                               Serialize(node.childNodes[i])])
       IN IF node.tagName \in ValidElements
            THEN El(ToLowerCase(node.tagName), inner)
            ELSE inner

SanitizerPolicies == {"framework", "passthrough"}

Sanitize(policy, tokens) ==
  IF policy = "framework"
    THEN LET body == ParseFromString(tokens) IN
         Flatten([i \in 1..Len(body.childNodes) |->
                    Serialize(body.childNodes[i])])
    ELSE tokens

----------------------------------------------------------------------------
(* HtmlLengthService.                                                      *)

InitialNonTextTags == <<<<MathTag, 0>>, <<ImageTag, 0>>>>

InitialTextTags_withoutOl ==
  <<<<"a", 1>>, <<"collapsible", 1000>>, <<"p", 1>>, <<"ul", 1>>>>

InitialTextTags ==
  <<<<"a", 1>>, <<"collapsible", 1000>>, <<"p", 1>>, <<"ul", 1>>, <<"ol", 1>>>>

\* The selector string of querySelectorAll.
Selector == {"p", "ul", "ol", ImageTag, MathTag}

\* Array.prototype.some(item => item[0] === ltag)
Some(table, ltag) == \E i \in 1..Len(table) : table[i][1] = ltag

\* Array.prototype.find(x => x[0] === ltag): the first match, or undefined.
Undefined == <<>>

Find(table, ltag) ==
  IF Some(table, ltag)
    THEN table[CHOOSE i \in 1..Len(table) :
                 /\ table[i][1] = ltag
                 /\ \A j \in 1..(i - 1) : table[j][1] # ltag]
    ELSE Undefined

\* A returned number, or the TypeError of indexing undefined.
Returned(n) == [threw |-> FALSE, value |-> n]
Raised == [threw |-> TRUE, value |-> 0]

GetWeightForTextNodes_charLength(textTags, textNode) ==
  Returned(Len(TextContent(textNode)))

GetWeightForTextNodes(textTags, textNode) ==
  LET textContent == TextContent(textNode)
      words == Split(Trim(textContent))
      wordCount == Len(words)
      ltag == ToLowerCase(textNode.tagName)
      entry == Find(textTags, ltag)
  IN IF ltag = "a" THEN Returned(Len(textContent))
     ELSE IF entry = Undefined THEN Raised
     ELSE Returned(wordCount * entry[2])

GetWeightForNonTextNodes(nonTextTags, nonTextNode) ==
  LET ltag == ToLowerCase(nonTextNode.tagName)
      entry == Find(nonTextTags, ltag)
  IN IF entry = Undefined THEN Raised ELSE Returned(entry[2])

\* What one iteration of the loop adds to totalWeight.
LoopBody(textTags, nonTextTags, tag) ==
  LET ltag == ToLowerCase(tag.tagName)
      t == IF Some(textTags, ltag)
             THEN GetWeightForTextNodes(textTags, tag) ELSE Returned(0)
      n == IF Some(nonTextTags, ltag)
             THEN GetWeightForNonTextNodes(nonTextTags, tag) ELSE Returned(0)
  IN IF t.threw \/ n.threw THEN Raised ELSE Returned(t.value + n.value)

RECURSIVE ForEachTag(_, _, _, _, _)
ForEachTag(textTags, nonTextTags, tagList, i, totalWeight) ==
  IF i > Len(tagList) THEN Returned(totalWeight)
  ELSE LET w == LoopBody(textTags, nonTextTags, tagList[i]) IN
       IF w.threw THEN Raised
       ELSE ForEachTag(textTags, nonTextTags, tagList, i + 1,
                       totalWeight + w.value)

\* The argument: null, undefined or a string.
Null == [kind |-> "null", tokens |-> <<>>]
Undef == [kind |-> "undefined", tokens |-> <<>>]
Str(tokens) == [kind |-> "string", tokens |-> tokens]

IsFalsy_nullOnly(s) == s.kind = "null"

\* !htmlString
IsFalsy(s) == s.kind # "string" \/ s.tokens = <<>>

TagListOf(policy, s) ==
  QuerySelectorAll(ParseFromString(Sanitize(policy, s.tokens)), Selector)

\* The outcome of the call on argument s.
Outcome(textTags, nonTextTags, policy, s) ==
  IF IsFalsy(s) THEN Returned(0)
  ELSE ForEachTag(textTags, nonTextTags, TagListOf(policy, s), 1, 0)

CollaboratorCalls(s) ==
  IF IsFalsy(s) THEN <<"loggerService.error">>
  ELSE <<"sanitizer.sanitize", "domparser.parseFromString">>

computeHtmlLengthInWords_bumpsTable(s) ==
  LET out == Outcome(textTagsWithWeight, nonTextTagsWithWeight,
                     sanitizerPolicy, s)
  IN /\ htmlString' = s
     /\ pc' = "done"
     /\ result' = out.value
     /\ threw' = out.threw
     /\ trace' = CollaboratorCalls(s)
     /\ textTagsWithWeight' =
          [i \in 1..Len(textTagsWithWeight) |->
             <<textTagsWithWeight[i][1], textTagsWithWeight[i][2] + 1>>]
     /\ UNCHANGED <<nonTextTagsWithWeight, sanitizerPolicy>>

computeHtmlLengthInWords(s) ==
  LET out == Outcome(textTagsWithWeight, nonTextTagsWithWeight,
                     sanitizerPolicy, s)
  IN /\ htmlString' = s
     /\ pc' = "done"
     /\ result' = out.value
     /\ threw' = out.threw
     /\ trace' = CollaboratorCalls(s)
     /\ UNCHANGED <<textTagsWithWeight, nonTextTagsWithWeight,
                    sanitizerPolicy>>

----------------------------------------------------------------------------
(* Arguments.                                                              *)

Texts == SeqsUpTo(Chars, MaxTextLen)
SibTexts == SeqsUpTo(Chars, MaxSibTextLen)

\* n one-letter words separated by single spaces.
RECURSIVE Words(_)
Words(n) ==
  IF n = 0 THEN <<>>
  ELSE IF n = 1 THEN <<"a">>
  ELSE Words(n - 1) \o <<" ", "a">>

WordTexts == {Words(n) : n \in 0..MaxWords}

FalsyInputs == {Null, Undef, Str(<<>>)}

SingleInputs ==
  {Str(El(t, Txt(s))) : t \in LowerTags, s \in Texts \cup WordTexts}

ListOf(l, items) ==
  El(l, Flatten([i \in 1..Len(items) |-> El("li", Txt(items[i]))]))

ListInputs ==
  {Str(ListOf(l, items)) :
     l \in {"ul", "ol"},
     items \in UNION {[1..k -> WordTexts] : k \in 1..MaxItems}}

Siblings ==
  {El("p", Txt(s)) : s \in SibTexts}
    \cup {El(ImageTag, <<>>), El(MathTag, <<>>),
          El("ol", El("li", Txt(<<"a">>)))}

Wrappers == {"", "div", "ul", "ol"}

Wrap(w, inner) == IF w = "" THEN inner ELSE El(w, inner)

SiblingInputs ==
  {Str(Wrap(w, x \o y)) : w \in Wrappers, x \in Siblings, y \in Siblings}

\* <ul><li>one two</li><li>three</li></ul>
ExampleList ==
  Str(ListOf("ul", << <<"o", "n", "e", " ", "t", "w", "o">>,
                      <<"t", "h", "r", "e", "e">> >>))

ExampleInputs ==
  { ExampleList,
    \* <P>a a</P>
    Str(<<Open("P"), Chr(Words(2)), Close("P")>>),
    \* <p>a<ul><li>a</li></ul></p>
    Str(<<Open("p"), Chr(Words(1)), Open("ul"), Open("li"), Chr(Words(1)),
          Close("li"), Close("ul"), Close("p")>>),
    \* <ul><li>a<li>a a</ul>
    Str(<<Open("ul"), Open("li"), Chr(Words(1)), Open("li"), Chr(Words(2)),
          Close("ul")>>),
    \* <p>a<p>a a
    Str(<<Open("p"), Chr(Words(1)), Open("p"), Chr(Words(2))>>),
    \* <ol><li><ul><li><p>a a</p></li></ul></li></ol>
    Str(El("ol", El("li", El("ul", El("li", El("p", Txt(Words(2)))))))),
    \* <p>a <a>a</a><collapsible>a</collapsible></p>
    Str(El("p", Txt(<<"a", " ">>) \o El("a", Txt(Words(1)))
                  \o El("collapsible", Txt(Words(1))))),
    \* a a
    Str(Txt(Words(2))) }

Inputs ==
  FalsyInputs \cup SingleInputs \cup ListInputs \cup SiblingInputs
    \cup ExampleInputs

CallInputs ==
  FalsyInputs \cup ExampleInputs
    \cup {Str(El("p", Txt(Words(n)))) : n \in 1..MaxWords}

----------------------------------------------------------------------------
(* The service: one call on a drawn argument (Spec), and any sequence of   *)
(* calls (SpecCalls).                                                      *)

NoCall == [made |-> FALSE, arg |-> Undef, value |-> 0, others |-> FALSE]

Constructed ==
  /\ textTagsWithWeight = InitialTextTags
  /\ nonTextTagsWithWeight = InitialNonTextTags
  /\ sanitizerPolicy \in SanitizerPolicies
  /\ result = 0
  /\ threw = FALSE
  /\ trace = <<>>
  /\ firstCall = NoCall

Init ==
  /\ Constructed
  /\ htmlString \in Inputs
  /\ pc = "ready"

Call ==
  /\ pc = "ready"
  /\ computeHtmlLengthInWords(htmlString)
  /\ UNCHANGED firstCall

Next == Call

Spec == Init /\ [][Next]_vars

InitCalls ==
  /\ Constructed
  /\ htmlString = Undef
  /\ pc = "idle"

CallWith(s) ==
  /\ computeHtmlLengthInWords(s)
  /\ firstCall' =
       IF firstCall.made
         THEN [firstCall EXCEPT !.others = @ \/ s # firstCall.arg]
         ELSE [made |-> TRUE, arg |-> s, value |-> result', others |-> FALSE]

NextCalls == \E s \in CallInputs : CallWith(s)

SpecCalls == InitCalls /\ [][NextCalls]_vars

----------------------------------------------------------------------------
(* Properties.                                                             *)

Done == pc = "done"

\* The document the last call walked.
Body == ParseFromString(Sanitize(sanitizerPolicy, htmlString.tokens))

\* The positions of s holding a character other than white space.
Inked(s) == {i \in 1..Len(s) : s[i] \notin WhiteSpace}

\* The space characters of s between its first and last non-white-space
\* character.
InnerSpaces(s) ==
  {i \in 1..Len(s) :
     /\ s[i] = " "
     /\ \E j \in Inked(s) : j < i
     /\ \E j \in Inked(s) : j > i}

\* s is one or more words separated by single spaces, nothing else.
SingleSpaced(s) ==
  /\ s # <<>>
  /\ \A i \in 1..Len(s) :
       s[i] \in WhiteSpace =>
         /\ s[i] = " "
         /\ i > 1 /\ i < Len(s)
         /\ s[i - 1] \notin WhiteSpace
         /\ s[i + 1] \notin WhiteSpace

\* The number of words of s: the positions where a word starts.
NumWords(s) ==
  Cardinality({i \in Inked(s) : i = 1 \/ s[i - 1] \in WhiteSpace})

\* C1: a string holding one <a> with text of length L, and no selected
\* element, makes the call return L.
C1_AnchorScoredByCharacterLength ==
  \A s \in Texts :
    (Done /\ htmlString = Str(El("a", Txt(s)))) => result = Len(s)

\* C2: for <ul><li>one two</li><li>three</li></ul> the word count of the
\* <ul> is 3 and the call returns 3.
C2_ListItemsCountedAsWords ==
  (Done /\ htmlString = ExampleList) => result = 3

\* C3: a string holding one <collapsible> block of 2 words, and no selected
\* element, makes the call return 2 * 1000 = 2000.
C3_CollapsibleWeighted ==
  (Done /\ htmlString = Str(El("collapsible", Txt(Words(2)))))
    => result = 2000

\* C4: on an empty, null or undefined argument the call returns 0 and makes
\* exactly one collaborator call, the logger's error; the sanitizer and the
\* parser are not invoked.
C4_FalsyInputLoggedOnce ==
  (Done /\ htmlString \in FalsyInputs) =>
    /\ result = 0
    /\ ~threw
    /\ trace = <<"loggerService.error">>

C4_Witness ==
  /\ Done
  /\ htmlString = Str(<<>>)
  /\ result = 0
  /\ trace = <<"loggerService.error">>

C6_SiblingOrderIndependent ==
  \A w \in Wrappers : \A x \in Siblings : \A y \in Siblings :
    (Done /\ htmlString = Str(Wrap(w, x \o y))) =>
      result = Outcome(textTagsWithWeight, nonTextTagsWithWeight,
                       sanitizerPolicy, Str(Wrap(w, y \o x))).value

\* C7: after any sequence of calls the two weight tables are as
\* constructed, and a call on the argument of the first call returns what
\* the first call returned.
C7_TablesUnchangedCallsRepeatable ==
  /\ textTagsWithWeight = InitialTextTags
  /\ nonTextTagsWithWeight = InitialNonTextTags
  /\ (firstCall.made /\ htmlString = firstCall.arg)
       => result = firstCall.value

\* The first call's argument is passed again after a call on another one.
C7_Witness ==
  /\ firstCall.made
  /\ firstCall.others
  /\ firstCall.arg = Str(El("p", Txt(Words(2))))
  /\ htmlString = firstCall.arg
  /\ result = 2

\* C8: every call returns, without raising, a non-negative integer, and
\* every selected element's lower-cased tag is in exactly one of the two
\* tables.
C8_NoRaiseNonNegative ==
  Done =>
    /\ ~threw
    /\ result \in Nat
    /\ ~IsFalsy(htmlString) =>
         LET tagList == QuerySelectorAll(Body, Selector) IN
         \A i \in 1..Len(tagList) :
           Some(textTagsWithWeight, ToLowerCase(tagList[i].tagName))
             # Some(nonTextTagsWithWeight, ToLowerCase(tagList[i].tagName))

\* Elements of both tables are selected in one call.
C8_Witness ==
  /\ Done
  /\ ~threw
  /\ htmlString = Str(El("ol", El("p", Txt(<<"a">>)) \o El(MathTag, <<>>)))
  /\ Len(QuerySelectorAll(Body, Selector)) = 3
  /\ result = 2

\* C9: the word count of a <p>, <ul> or <ol> (multiplier 1) is 1 plus the
\* number of space characters of its trimmed text: repeated spaces add
\* empty words, tabs do not separate words, and empty trimmed text counts
\* as one word.
C9_WordCountIsSpacesPlusOne ==
  \A t \in {"p", "ul", "ol"} : \A s \in Texts :
    (Done /\ htmlString = Str(El(t, Txt(s))))
      => result = 1 + Cardinality(InnerSpaces(s))

\* Two words separated by two spaces count as three.
C9_Witness ==
  /\ Done
  /\ htmlString = Str(El("p", Txt(<<"a", " ", " ", "a">>)))
  /\ result = 3

\* The weight of one element on its own: word count of its whole text
\* times its multiplier for p, ul, ol; the fixed weight for the embeds.
OwnWeight(e) ==
  LET ltag == ToLowerCase(e.tagName) IN
  IF ltag \notin Selector THEN 0
  ELSE IF ltag \in {ImageTag, MathTag} THEN 0
  ELSE 1 + Cardinality(InnerSpaces(TextContent(e)))

RECURSIVE Sum(_)
Sum(ns) == IF ns = <<>> THEN 0 ELSE Head(ns) + Sum(Tail(ns))

RECURSIVE TreeWeight(_)
TreeWeight(node) ==
  IF node.tagName = "#text" THEN 0
  ELSE OwnWeight(node)
         + Sum([i \in 1..Len(node.childNodes) |->
                  TreeWeight(node.childNodes[i])])

\* C10: the result is the sum, over the selected elements at every depth,
\* of the element's own weight from its whole text content, so nested
\* text is counted once per selected ancestor-or-self.
C10_SumOverEverySelectedElement ==
  (Done /\ ~IsFalsy(htmlString)) => result = TreeWeight(Body)

\* A <p> inside a <ul> inside an <ol>: two words counted three times.
C10_Witness ==
  /\ Done
  /\ htmlString =
       Str(El("ol", El("li", El("ul", El("li", El("p", Txt(Words(2))))))))
  /\ result = 6
  /\ result > NumWords(TextContent(Body))

====
